---------------------------- MODULE Spec2Model ----------------------------
(***************************************************************************)
(* Smart DCA dashboard (src/app.py): the valuation-classification and      *)
(* allocation engine.  get_market_data reduces each ticker's close-price   *)
(* history to a row (price, 200-day average, drawdown, status, multiplier) *)
(* and main turns the monthly contribution into per-asset amounts.         *)
(*                                                                         *)
(* Numbers.  Closes are finite numbers (integers here); every derived      *)
(* quantity is a numpy float64, modelled as an exact rational in lowest    *)
(* terms or one of the IEEE specials the code can produce (NaN, +/-inf):   *)
(* float64 division by zero does not raise, it yields NaN or an infinity.  *)
(* Rounding of finite results is not modelled.                             *)
(***************************************************************************)
EXTENDS Integers, Sequences, FiniteSets

VARIABLES
    tickers,            \* argument of get_market_data (TICKERS in main)
    base_contribution,  \* st.number_input value read by main
    pc,                 \* "fetch": in the for loop; "done": main has returned
    i,                  \* position of the for loop in tickers (1-based)
    df,                 \* closes of the history fetched last (<<>>: none)
    data,               \* rows appended so far; the DataFrame main receives
    failed,             \* positions of the tickers skipped (exception, empty)
    fetches,            \* number of stock.history calls made
    errors,             \* tickers named by the messages line 90 has printed
    base_per_asset,     \* main's local (Unset until assigned)
    Invest_Amount,      \* df['Invest_Amount'], aligned with data
    total_smart_dca,    \* main's local
    active_multiplier,  \* main's local
    result              \* "pending" | "no_data" | "rendered" | "crashed"

vars == <<tickers, base_contribution, pc, i, df, data, failed, fetches,
          errors,
          base_per_asset, Invest_Amount, total_smart_dca, active_multiplier,
          result>>

----------------------------------------------------------------------------
(* Bounds of the model and program constants *)

\* longest ticker list passed to get_market_data
MaxTickers == 2
\* contributions are -100, 0, 100, ..., 100 * MaxContribution, and the default
MaxContribution == 1
\* closes range over -2 .. MaxClose
MaxClose == 7
\* longest short (newly listed) history
MaxLen == 3
\* long histories have lengths within MaxSlack of either window
MaxSlack == 1

\* rolling(window=200), len(df) >= 200
TrendWindow == 200
\* tail(252)
HighWindow == 252
\* st.number_input(value=1000, step=100)
DefaultContribution == 1000
ContributionStep == 100

----------------------------------------------------------------------------
(* float64 values *)

Abs(x) == IF x < 0 THEN -x ELSE x

Sign(x) == IF x < 0 THEN -1 ELSE 1

RECURSIVE GCD(_, _)
GCD(a, b) == IF b = 0 THEN a ELSE GCD(b, a % b)

\* the finite value n/d (d # 0), in lowest terms with a positive denominator
Rat(n, d) ==
    LET g == GCD(Abs(n), Abs(d))
    IN  [k |-> "fin", n |-> (Sign(d) * n) \div g, d |-> Abs(d) \div g]

Num(n) == [k |-> "fin", n |-> n, d |-> 1]

NaN == [k |-> "nan", n |-> 0, d |-> 1]

Inf(s) == [k |-> "inf", n |-> s, d |-> 1]

\* a local of main that has not been assigned
Unset == [k |-> "unset", n |-> 0, d |-> 1]

IsFinite(x) == x.k = "fin"

FAdd(x, y) ==
    IF x.k = "nan" \/ y.k = "nan" THEN NaN
    ELSE IF x.k = "inf" THEN (IF y.k = "inf" /\ y.n # x.n THEN NaN ELSE x)
    ELSE IF y.k = "inf" THEN y
    ELSE Rat(x.n * y.d + y.n * x.d, x.d * y.d)

FNeg(x) == IF x.k = "nan" THEN NaN ELSE [x EXCEPT !.n = -x.n]

FSub(x, y) == FAdd(x, FNeg(y))

FMul(x, y) ==
    IF x.k = "nan" \/ y.k = "nan" THEN NaN
    ELSE IF x.k = "inf" \/ y.k = "inf"
         THEN (IF x.n = 0 \/ y.n = 0 THEN NaN ELSE Inf(Sign(x.n) * Sign(y.n)))
    ELSE Rat(x.n * y.n, x.d * y.d)

\* float64 true division: x/0 is NaN for x = 0 and an infinity otherwise
FDiv(x, y) ==
    IF x.k = "nan" \/ y.k = "nan" THEN NaN
    ELSE IF x.k = "inf"
         THEN (IF y.k = "inf" THEN NaN ELSE Inf(x.n * Sign(y.n)))
    ELSE IF y.k = "inf" THEN Num(0)
    ELSE IF y.n = 0 THEN (IF x.n = 0 THEN NaN ELSE Inf(Sign(x.n)))
    ELSE Rat(x.n * y.d, x.d * y.n)

\* comparisons: every comparison with NaN is False
FLt(x, y) ==
    /\ x.k # "nan"
    /\ y.k # "nan"
    /\ IF x.k = "inf" THEN x.n < 0 /\ ~(y.k = "inf" /\ y.n < 0)
       ELSE IF y.k = "inf" THEN y.n > 0
       ELSE x.n * y.d < y.n * x.d

FGt(x, y) == FLt(y, x)

FEq(x, y) == x.k # "nan" /\ y.k # "nan" /\ x = y

FLe(x, y) == FLt(x, y) \/ FEq(x, y)

----------------------------------------------------------------------------
(* pandas operations on the Close column; a series is a sequence of closes *)

\* df['Close'].iloc[-1]
ILocLast(s) == s[Len(s)]

\* Series.tail(n): the last n elements, or all of them if there are fewer
tail(s, n) == SubSeq(s, IF Len(s) > n THEN Len(s) - n + 1 ELSE 1, Len(s))

\* the sum of s[lo..hi], by halves (numpy sums pairwise)
RECURSIVE SumRange(_, _, _)
SumRange(s, lo, hi) ==
    IF lo > hi THEN 0
    ELSE IF lo = hi THEN s[lo]
    ELSE LET mid == (lo + hi) \div 2
         IN  SumRange(s, lo, mid) + SumRange(s, mid + 1, hi)

\* Series.sum()
SeriesSum(s) == SumRange(s, 1, Len(s))

\* Series.mean(): NaN for an empty series
SeriesMean(s) == IF Len(s) = 0 THEN NaN ELSE Rat(SeriesSum(s), Len(s))

\* Series.max()
SeriesMax(s) ==
    LET vals == {s[j] : j \in 1..Len(s)}
    IN  CHOOSE m \in vals : \A v \in vals : v <= m

\* Series.rolling(window=w).mean(): NaN until w observations are available,
\* then the mean of the w closes ending at each position
RollingMean(s, w) ==
    [j \in 1..Len(s) |->
        IF j < w THEN NaN ELSE SeriesMean(SubSeq(s, j - w + 1, j))]

----------------------------------------------------------------------------
(* get_market_data: the body of the for loop *)

\* TrendAverage without the rolling window: the mean of the whole history
TrendAverageWholeHistory(s) == SeriesMean(s)

\* lines 41-45: the 200-day moving average, with the new-stock fallback;
\* .iloc[-1] of the rolling mean is its entry at the last position of df
TrendAverage(s) ==
    IF Len(s) >= TrendWindow
    THEN RollingMean(s, TrendWindow)[Len(s)]
    ELSE SeriesMean(s)

\* line 48: the 52-week high
YearHigh(s) == Num(SeriesMax(tail(s, HighWindow)))

\* line 49
Drawdown(current_price, year_high) ==
    FDiv(FSub(current_price, year_high), year_high)

\* line 52
DmaDiffPct(current_price, dma_200) ==
    FDiv(FSub(current_price, dma_200), dma_200)

\* the two thresholds of lines 64 and 68
OverThreshold == Rat(20, 100)
DrawdownThreshold == Rat(-20, 100)

\* Classify with the thresholds included (>= 0.20, <= -0.20)
ClassifyInclusive(current_price, dma_200, dma_diff_pct, drawdown) ==
    IF FGt(current_price, dma_200) /\ FLe(OverThreshold, dma_diff_pct)
    THEN [Status |-> "Overextended", Multiplier |-> Num(0),
          Badge |-> "badge-trim"]
    ELSE IF FLt(current_price, dma_200) /\ FLe(drawdown, DrawdownThreshold)
    THEN [Status |-> "Deep Value Buy", Multiplier |-> Num(2),
          Badge |-> "badge-deep"]
    ELSE IF FLt(current_price, dma_200)
    THEN [Status |-> "Smart Buy", Multiplier |-> Rat(3, 2),
          Badge |-> "badge-smart"]
    ELSE [Status |-> "Standard", Multiplier |-> Num(1),
          Badge |-> "badge-standard"]

\* lines 54-75: status, multiplier and badge
Classify(current_price, dma_200, dma_diff_pct, drawdown) ==
    IF FGt(current_price, dma_200) /\ FGt(dma_diff_pct, OverThreshold)
    THEN [Status |-> "Overextended", Multiplier |-> Num(0),
          Badge |-> "badge-trim"]
    ELSE IF FLt(current_price, dma_200) /\ FLt(drawdown, DrawdownThreshold)
    THEN [Status |-> "Deep Value Buy", Multiplier |-> Num(2),
          Badge |-> "badge-deep"]
    ELSE IF FLt(current_price, dma_200)
    THEN [Status |-> "Smart Buy", Multiplier |-> Rat(3, 2),
          Badge |-> "badge-smart"]
    ELSE [Status |-> "Standard", Multiplier |-> Num(1),
          Badge |-> "badge-standard"]

\* lines 39-86: the row appended for a ticker whose history s is not empty
Row(ticker, s) ==
    LET current_price == Num(ILocLast(s))
        dma_200       == TrendAverage(s)
        year_high     == YearHigh(s)
        drawdown      == Drawdown(current_price, year_high)
        dma_diff_pct  == DmaDiffPct(current_price, dma_200)
        c             ==
            Classify(current_price, dma_200, dma_diff_pct, drawdown)
    IN  [Ticker     |-> ticker,
         Price      |-> current_price,
         DMA_200    |-> dma_200,
         DMA_Diff   |-> dma_diff_pct,
         Drawdown   |-> drawdown,
         Multiplier |-> c.Multiplier,
         Status     |-> c.Status,
         Badge      |-> c.Badge]

----------------------------------------------------------------------------
(* main: the allocation that follows get_market_data *)

\* df.empty never reported
DfEmptyUnchecked(d) == FALSE

\* df.empty
DfEmpty(d) == Len(d) = 0

\* the base share over the tickers requested instead of the rows obtained
BasePerAssetOfRequested(contribution, d) == Rat(contribution, Len(tickers))

\* line 133: base_contribution / len(df)
BasePerAsset(contribution, d) == Rat(contribution, Len(d))

\* amounts rescaled by the mean multiplier, so that they add up to the
\* contribution
InvestAmountsRescaled(base, d) ==
    LET RECURSIVE MultSum(_)
        MultSum(n) ==
            IF n = 0 THEN Num(0) ELSE FAdd(MultSum(n - 1), d[n].Multiplier)
        mean == FDiv(MultSum(Len(d)), Num(Len(d)))
    IN  [j \in 1..Len(d) |-> FDiv(FMul(base, d[j].Multiplier), mean)]

\* line 136: base_per_asset * df['Multiplier']
InvestAmounts(base, d) ==
    [j \in 1..Len(d) |-> FMul(base, d[j].Multiplier)]

RECURSIVE ColumnSumTo(_, _)
ColumnSumTo(col, n) ==
    IF n = 0 THEN Num(0) ELSE FAdd(ColumnSumTo(col, n - 1), col[n])

\* line 138: df['Invest_Amount'].sum()
ColumnSum(col) == ColumnSumTo(col, Len(col))

\* the active multiplier without the guard on the contribution
ActiveMultiplierUnguarded(total, contribution) ==
    FDiv(total, Num(contribution))

\* line 139: total_smart_dca / base_contribution if base_contribution > 0
\* else 0
ActiveMultiplier(total, contribution) ==
    IF contribution > 0 THEN FDiv(total, Num(contribution)) ELSE Num(0)

----------------------------------------------------------------------------
(* Inputs *)

\* TICKERS (its first two symbols); get_market_data takes any list of them
Tickers == {"SPY", "VT"}

TickerLists == UNION {[1..n -> Tickers] : n \in 0..MaxTickers}

\* values of the number_input: it has no min_value, so negatives can be entered
Contributions ==
    {ContributionStep * c : c \in -1..MaxContribution}
        \cup {DefaultContribution}

Closes == -2..MaxClose

\* histories of newly listed assets
ShortSeries == UNION {[1..n -> Closes] : n \in 1..MaxLen}

LongLens ==
    {w + e : w \in {TrendWindow, HighWindow}, e \in -MaxSlack..MaxSlack}

Heads == {<<>>} \cup {<<h>> : h \in Closes}

\* histories about as long as the windows: an optional first close, a flat
\* stretch, and the current close
LongSeries ==
    {head \o [j \in 1..(len - Len(head) - 1) |-> a] \o <<c>> :
        head \in Heads, a \in Closes, len \in LongLens, c \in Closes}

WideSeries == ShortSeries \cup LongSeries

\* the histories offered to a run over a list of tickers
BatchCloses == {0, 3, 4, 5}

BatchSeries == UNION {[1..n -> BatchCloses] : n \in 1..2}

----------------------------------------------------------------------------
(* The state machine *)

InitLocals ==
    /\ pc = "fetch"
    /\ i = 1
    /\ df = <<>>
    /\ data = <<>>
    /\ failed = {}
    /\ fetches = 0
    /\ errors = <<>>
    /\ base_per_asset = Unset
    /\ Invest_Amount = <<>>
    /\ total_smart_dca = Unset
    /\ active_multiplier = Unset
    /\ result = "pending"

\* main has read the contribution (line 122) and calls get_market_data
Init ==
    /\ tickers \in TickerLists
    /\ base_contribution \in Contributions
    /\ InitLocals

InLoop == pc = "fetch" /\ i <= Len(tickers)

\* lines 32-34 raise (unknown symbol, network failure): lines 88-91 print the
\* error and skip the ticker
HistoryRaises ==
    /\ InLoop
    /\ fetches' = fetches + 1
    /\ errors' = Append(errors, tickers[i])
    /\ failed' = failed \cup {i}
    /\ i' = i + 1
    /\ UNCHANGED <<tickers, base_contribution, pc, df, data, base_per_asset,
                   Invest_Amount, total_smart_dca, active_multiplier, result>>

\* lines 36-37: an empty frame skips the ticker
HistoryEmpty ==
    /\ InLoop
    /\ fetches' = fetches + 1
    /\ df' = <<>>
    /\ failed' = failed \cup {i}
    /\ i' = i + 1
    /\ UNCHANGED <<tickers, base_contribution, pc, data, errors,
                   base_per_asset, Invest_Amount, total_smart_dca,
                   active_multiplier, result>>

\* lines 39-86: a non-empty frame yields a row; float arithmetic raises nothing
HistoryRow(series) ==
    /\ InLoop
    /\ \E s \in series :
        /\ df' = s
        /\ data' = Append(data, Row(tickers[i], s))
    /\ fetches' = fetches + 1
    /\ i' = i + 1
    /\ UNCHANGED <<tickers, base_contribution, pc, failed, errors,
                   base_per_asset, Invest_Amount, total_smart_dca,
                   active_multiplier, result>>

HistoryData == HistoryRow(BatchSeries)

HistoryDataWide == HistoryRow(WideSeries)

\* line 93 returns the frame; lines 128-140 of main
Main ==
    /\ pc = "fetch"
    /\ i > Len(tickers)
    /\ pc' = "done"
    /\ IF DfEmpty(data)
       THEN /\ result' = "no_data"
            /\ UNCHANGED <<base_per_asset, Invest_Amount, total_smart_dca,
                           active_multiplier>>
       ELSE IF Len(data) = 0
       THEN \* int / 0: ZeroDivisionError
            /\ result' = "crashed"
            /\ UNCHANGED <<base_per_asset, Invest_Amount, total_smart_dca,
                           active_multiplier>>
       ELSE LET base    == BasePerAsset(base_contribution, data)
                amounts == InvestAmounts(base, data)
                total   == ColumnSum(amounts)
            IN  /\ base_per_asset' = base
                /\ Invest_Amount' = amounts
                /\ total_smart_dca' = total
                /\ active_multiplier' =
                       ActiveMultiplier(total, base_contribution)
                /\ result' = "rendered"
    /\ UNCHANGED <<tickers, base_contribution, i, df, data, failed, fetches,
                   errors>>

Next == HistoryRaises \/ HistoryEmpty \/ HistoryData \/ Main

Spec == Init /\ [][Next]_vars

\* one ticker, the default contribution, and histories of every length
InitInd ==
    /\ tickers \in {<<t>> : t \in Tickers}
    /\ base_contribution = DefaultContribution
    /\ InitLocals

NextInd == HistoryRaises \/ HistoryEmpty \/ HistoryDataWide \/ Main

SpecInd == InitInd /\ [][NextInd]_vars

----------------------------------------------------------------------------
(* Properties: helpers *)

\* the row of the history held in df (the row appended last)
LastRow == data[Len(data)]

\* the sum of s[lo..hi], counted value by value
SumByValue(s, lo, hi) ==
    LET RECURSIVE Weigh(_)
        Weigh(vals) ==
            IF vals = {} THEN 0
            ELSE LET v == CHOOSE x \in vals : TRUE
                 IN  v * Cardinality({j \in lo..hi : s[j] = v})
                     + Weigh(vals \ {v})
    IN  Weigh({s[j] : j \in lo..hi})

\* the arithmetic mean of s[lo..hi]
ArithMean(s, lo, hi) == Rat(SumByValue(s, lo, hi), hi - lo + 1)

\* the largest of s[lo..hi]
HighOf(s, lo, hi) ==
    CHOOSE m \in {s[j] : j \in lo..hi} : \A j \in lo..hi : s[j] <= m

\* the fixed table of the four valuation states
MultiplierTable ==
    [st \in {"Overextended", "Deep Value Buy", "Smart Buy", "Standard"} |->
        CASE st = "Overextended"   -> Num(0)
          [] st = "Deep Value Buy" -> Num(2)
          [] st = "Smart Buy"      -> Rat(3, 2)
          [] st = "Standard"       -> Num(1)]

----------------------------------------------------------------------------
(* C1 *)

\* C1: every row carries the state of the first rule that matches, in the
\* order Overextended, Deep Value, Smart Buy, Standard, and the multiplier of
\* the table for that state; a price above the average with a deviation of
\* 0.25 is Overextended; a deviation of exactly 0.20 is not Overextended and a
\* drawdown of exactly -0.20 is not Deep Value.
C1_FirstMatchWins ==
    \A j \in 1..Len(data) :
        LET r     == data[j]
            above == FGt(r.Price, r.DMA_200)
            below == FLt(r.Price, r.DMA_200)
            rule1 == above /\ FGt(r.DMA_Diff, Rat(1, 5))
            rule2 == below /\ FLt(r.Drawdown, Rat(-1, 5))
            rule3 == below
        IN  /\ r.Status \in DOMAIN MultiplierTable
            /\ rule1 => r.Status = "Overextended"
            /\ ~rule1 /\ rule2 => r.Status = "Deep Value Buy"
            /\ ~rule1 /\ ~rule2 /\ rule3 => r.Status = "Smart Buy"
            /\ ~rule1 /\ ~rule2 /\ ~rule3 => r.Status = "Standard"
            /\ r.Multiplier = MultiplierTable[r.Status]
            /\ above /\ r.DMA_Diff = Rat(1, 4) => r.Status = "Overextended"
            /\ r.DMA_Diff = Rat(1, 5) => r.Status # "Overextended"
            /\ r.Drawdown = Rat(-1, 5) => r.Status # "Deep Value Buy"

\* a row above its average by exactly 0.25 whose drawdown is past -0.20
C1_Witness ==
    /\ Len(data) > 0
    /\ FGt(LastRow.Price, LastRow.DMA_200)
    /\ LastRow.DMA_Diff = Rat(1, 4)
    /\ FLt(LastRow.Drawdown, Rat(-1, 5))
    /\ LastRow.Status = "Overextended"
    /\ LastRow.Multiplier = Num(0)

\* rows exactly at a threshold
C1_AtDeviationThreshold ==
    /\ Len(data) > 0
    /\ LastRow.DMA_Diff = Rat(1, 5)
    /\ LastRow.Status = "Standard"

C1_AtDrawdownThreshold ==
    /\ Len(data) > 0
    /\ LastRow.Drawdown = Rat(-1, 5)
    /\ LastRow.Status = "Smart Buy"

----------------------------------------------------------------------------
(* C3, C4, C10: the indicators of one history *)

\* C3: for any non-empty history the drawdown of its row is <= 0, and it is 0
\* exactly when the current close equals the trailing high.
C3_DrawdownNeverPositive ==
    df # <<>> =>
        LET len  == Len(df)
            high == HighOf(df, IF len > 252 THEN len - 251 ELSE 1, len)
        IN  /\ FLe(LastRow.Drawdown, Num(0))
            /\ FEq(LastRow.Drawdown, Num(0)) <=> df[len] = high

\* C4: no row is emitted whose trend average or trailing high is zero or
\* negative, or whose drawdown or deviation is NaN or infinite.
C4_DegenerateHistoryExcluded ==
    /\ \A j \in 1..Len(data) :
          /\ IsFinite(data[j].Drawdown)
          /\ IsFinite(data[j].DMA_Diff)
          /\ FGt(data[j].DMA_200, Num(0))
    /\ df # <<>> => SeriesMax(tail(df, HighWindow)) > 0

\* C10: the trend average of a history of length len is the mean of its last
\* 200 closes when len >= 200 and the mean of all its closes when len < 200;
\* at len = 200 the two are the same number.
C10_TrendAverageWindow ==
    df # <<>> =>
        LET len == Len(df)
        IN  /\ len >= 200 =>
                LastRow.DMA_200 = ArithMean(df, len - 199, len)
            /\ len < 200 => LastRow.DMA_200 = ArithMean(df, 1, len)
            /\ len = 200 => LastRow.DMA_200 = ArithMean(df, 1, len)

\* a history longer than the window whose older close moves the overall mean
C10_Witness ==
    /\ Len(df) > 200
    /\ Len(data) > 0
    /\ LastRow.DMA_200 = ArithMean(df, Len(df) - 199, Len(df))
    /\ LastRow.DMA_200 # ArithMean(df, 1, Len(df))

\* histories on either side of the switch
C10_ShortOfWindow ==
    Len(df) = 199 /\ Len(data) > 0 /\ df[1] # df[2]

C10_AtWindow ==
    Len(df) = 200 /\ Len(data) > 0 /\ df[1] # df[2]

----------------------------------------------------------------------------
(* C2, C5 - C9: a run over a list of tickers *)

\* the tickers of the positions visited so far that were not skipped, in order
RECURSIVE Survivors(_)
Survivors(n) ==
    IF n = 0 THEN <<>>
    ELSE IF n \in failed THEN Survivors(n - 1)
    ELSE Append(Survivors(n - 1), tickers[n])

\* C2: whichever tickers fail, the run goes on to its end without an error
\* (every ticker of the list is visited, none stops the loop), the rows are
\* those of the tickers that did not fail, in input order, and the base share
\* is the contribution divided by the number of rows.
C2_PerTickerIsolation ==
    /\ result # "crashed"
    /\ i \in 1..(Len(tickers) + 1)
    /\ fetches = i - 1
    /\ pc = "done" => i = Len(tickers) + 1 /\ result \in {"rendered", "no_data"}
    /\ failed \subseteq 1..(i - 1)
    /\ Len(data) = i - 1 - Cardinality(failed)
    /\ [j \in 1..Len(data) |-> data[j].Ticker] = Survivors(i - 1)
    /\ result = "rendered" =>
          /\ Len(tickers) - Cardinality(failed) > 0
          /\ base_per_asset =
                 Rat(base_contribution, Len(tickers) - Cardinality(failed))

\* two tickers, one of which failed: the survivor's base share is the whole
\* contribution
C2_Witness ==
    /\ result = "rendered"
    /\ Len(tickers) = 2
    /\ Cardinality(failed) = 1
    /\ base_contribution > 0
    /\ Len(data) = 1
    /\ base_per_asset = Num(base_contribution)

\* C5: a negative contribution or an empty ticker list is rejected before any
\* history is fetched and yields no result, so no amount is ever negative.
C5_InvalidInputFailsFast ==
    /\ base_contribution < 0 \/ tickers = <<>> =>
          fetches = 0 /\ data = <<>> /\ result # "rendered"
    /\ \A j \in 1..Len(Invest_Amount) : FLe(Num(0), Invest_Amount[j])

\* C6: no two rows of a run carry the same ticker, whatever the ticker list.
C6_NoDuplicateRows ==
    \A j, m \in 1..Len(data) : j # m => data[j].Ticker # data[m].Ticker

\* twice the sum of the multipliers of the rows, from the table
TwiceMultiplierSum ==
    LET count(st) == Cardinality({j \in 1..Len(data) : data[j].Status = st})
    IN  0 * count("Overextended") + 4 * count("Deep Value Buy")
        + 3 * count("Smart Buy") + 2 * count("Standard")

\* C7: each amount is (contribution / n) x multiplier, and the amounts add up
\* to contribution x (mean multiplier): they are not rescaled to add up to
\* the contribution.
C7_SumIsContributionTimesMeanMultiplier ==
    result = "rendered" =>
        LET n == Len(data)
        IN  /\ Len(Invest_Amount) = n
            /\ \A j \in 1..n :
                  Invest_Amount[j] =
                      FMul(Rat(base_contribution, n), data[j].Multiplier)
            /\ total_smart_dca =
                   Rat(base_contribution * TwiceMultiplierSum, 2 * n)
            /\ (TwiceMultiplierSum # 2 * n /\ base_contribution # 0)
                   => total_smart_dca # Num(base_contribution)

\* two rows whose mean multiplier is not 1: the total differs from the
\* contribution
C7_Witness ==
    /\ result = "rendered"
    /\ Len(data) = 2
    /\ base_contribution > 0
    /\ data[1].Multiplier # data[2].Multiplier
    /\ total_smart_dca # Num(base_contribution)

\* C8: when every ticker fails the result is empty and nothing is raised: the
\* base share is never computed.
C8_AllFailGivesEmptyResult ==
    /\ result # "crashed"
    /\ (pc = "done" /\ Cardinality(failed) = Len(tickers)) =>
          /\ data = <<>>
          /\ result = "no_data"
          /\ base_per_asset = Unset
          /\ Invest_Amount = <<>>

\* a run of two tickers that both failed
C8_Witness ==
    /\ pc = "done"
    /\ Len(tickers) = 2
    /\ failed = {1, 2}
    /\ result = "no_data"

\* C9: with a contribution of 0 and at least one row, every amount is 0 and
\* the active multiplier is 0, not NaN.
C9_ZeroContribution ==
    (pc = "done" /\ base_contribution = 0 /\ Len(data) >= 1) =>
        /\ result = "rendered"
        /\ Len(Invest_Amount) = Len(data)
        /\ \A j \in 1..Len(Invest_Amount) : Invest_Amount[j] = Num(0)
        /\ total_smart_dca = Num(0)
        /\ active_multiplier = Num(0)

C9_Witness ==
    /\ result = "rendered"
    /\ base_contribution = 0
    /\ Len(data) = 2
    /\ active_multiplier = Num(0)

=============================================================================
